---- MODULE Spec2Model ----
(***************************************************************************)
(* Model of the Nebula Graph console (package main): the entry point       *)
(* main, the read-eval-print loop `loop`, the two Cli implementations      *)
(* (iCli, nCli), the client-side command recogniser clientCmd, the prompt  *)
(* renderer and the response printer.                                      *)
(*                                                                         *)
(* The revision modelled is the one in which loop takes a Cli and returns  *)
(* an error (func loop(client, c Cli) error), with iCli and nCli defined   *)
(* next to it.                                                             *)
(*                                                                         *)
(* Text is modelled as sequences of one-character strings, so that         *)
(* strings.TrimSpace, strings.ToLower and len() are computed rather than   *)
(* assumed.  Standard output is a sequence of written pieces; what the     *)
(* line editor itself writes to the terminal (its own prompt, the echo of  *)
(* the keys) is not part of it.                                            *)
(***************************************************************************)
EXTENDS Integers, Sequences, FiniteSets, TLC

VARIABLES
    mode,           \* "interactive" | "script" (-e) | "file" (-f), from the flags
    username,       \* value of flag -u
    isTTY,          \* readline.IsTerminal(stdout); read only by iCli
    pc,             \* position of the process (see PcValues)
    connected,      \* client.Connect succeeded and Disconnect has not run
    disconnects,    \* number of client.Disconnect calls performed
    deferred,       \* main's stack of deferred calls (last registered first)
    rlOpen,         \* the readline.Instance exists and has not been closed
    fdOpen,         \* the script file is open
    fdEverOpened,   \* os.Open succeeded at some point
    currentSpace,   \* loop's local currentSpace
    line,           \* loop's lineString for the iteration in progress
    reads,          \* history: results of the ReadLine calls so far
    execs,          \* history: Execute calls so far, with the read they follow
    resps,          \* history: responses Execute has returned so far
    prompts,        \* history: prompts rendered so far
    out,            \* standard output, a sequence of written pieces
    errlog,         \* standard error (package log)
    loopErr,        \* value returned by loop ("unset" while it has not returned)
    exitCode,       \* process exit status: <<>> while running, <<code>> once exited
    fed,            \* history: the lines the input source has delivered so far
    pending,        \* nCli's bufio.Reader: <<rest>> of a line not yet returned
    ended,          \* the input source has nothing after the line last delivered
    call            \* a direct call of val2String or printTable and its results

vars == <<mode, username, isTTY, pc, connected, disconnects, deferred, rlOpen,
          fdOpen, fdEverOpened, currentSpace, line, reads, execs, resps,
          prompts, out, errlog, loopErr, exitCode, fed, pending, ended, call>>

\* the state of the process, without the record of a direct call
procVars == <<mode, username, isTTY, pc, connected, disconnects, deferred,
              rlOpen, fdOpen, fdEverOpened, currentSpace, line, reads, execs,
              resps, prompts, out, errlog, loopErr, exitCode, fed, pending, ended>>

(***************************************************************************)
(* Bounds of the model.                                                    *)
(***************************************************************************)
MaxReads == 3          \* ReadLine calls that may deliver a line

(***************************************************************************)
(* Program constants.                                                      *)
(***************************************************************************)
NebulaLabel == "Nebula-Console"
Version == "v2.0.0-alpha"
ttyColorPrefix == "\\033["
ttyColorSuffix == "m"
ttyColorRed == "31"
ttyColorBold == "1"
ttyColorReset == "0"
ErrorCode_SUCCEEDED == 0

(***************************************************************************)
(* Text helpers: Go's strings.TrimSpace and strings.ToLower on sequences   *)
(* of characters.                                                          *)
(***************************************************************************)
\* The characters of the model are the ASCII characters, each written as a
\* one-character string, and the characters beyond them that are named
\* here, each written as its code point ("U+00A0").  The vertical tab,
\* which has no escape in a string, is written "U+000B".

\* unicode.IsSpace, which strings.TrimSpace trims
WhiteSpace ==
    {" ", "\t", "\n", "\r", "\f", "U+000B", "U+0085", "U+00A0", "U+1680",
     "U+2000", "U+2001", "U+2002", "U+2003", "U+2004", "U+2005", "U+2006",
     "U+2007", "U+2008", "U+2009", "U+200A", "U+2028", "U+2029", "U+202F",
     "U+205F", "U+3000"}

\* the characters that UTF-8 encodes in two and in three bytes
TwoByteChars == {"U+0085", "U+00A0", "U+00C9", "U+00E9", "U+0130"}
ThreeByteChars ==
    {"U+1680", "U+2000", "U+2001", "U+2002", "U+2003", "U+2004", "U+2005",
     "U+2006", "U+2007", "U+2008", "U+2009", "U+200A", "U+2028", "U+2029",
     "U+202F", "U+205F", "U+3000", "U+212A", "U+FFFD"}

\* the bytes of the UTF-8 encoding of a character, each written as a
\* one-byte character ("0xC2"); such a byte stands alone in a string where
\* a read has cut a character between its bytes
Utf8(c) ==
    CASE c = "U+0085" -> <<"0xC2", "0x85">>
      [] c = "U+00A0" -> <<"0xC2", "0xA0">>
      [] c = "U+00C9" -> <<"0xC3", "0x89">>
      [] c = "U+00E9" -> <<"0xC3", "0xA9">>
      [] c = "U+0130" -> <<"0xC4", "0xB0">>
      [] c = "U+1680" -> <<"0xE1", "0x9A", "0x80">>
      [] c = "U+2000" -> <<"0xE2", "0x80", "0x80">>
      [] c = "U+2001" -> <<"0xE2", "0x80", "0x81">>
      [] c = "U+2002" -> <<"0xE2", "0x80", "0x82">>
      [] c = "U+2003" -> <<"0xE2", "0x80", "0x83">>
      [] c = "U+2004" -> <<"0xE2", "0x80", "0x84">>
      [] c = "U+2005" -> <<"0xE2", "0x80", "0x85">>
      [] c = "U+2006" -> <<"0xE2", "0x80", "0x86">>
      [] c = "U+2007" -> <<"0xE2", "0x80", "0x87">>
      [] c = "U+2008" -> <<"0xE2", "0x80", "0x88">>
      [] c = "U+2009" -> <<"0xE2", "0x80", "0x89">>
      [] c = "U+200A" -> <<"0xE2", "0x80", "0x8A">>
      [] c = "U+2028" -> <<"0xE2", "0x80", "0xA8">>
      [] c = "U+2029" -> <<"0xE2", "0x80", "0xA9">>
      [] c = "U+202F" -> <<"0xE2", "0x80", "0xAF">>
      [] c = "U+205F" -> <<"0xE2", "0x81", "0x9F">>
      [] c = "U+3000" -> <<"0xE3", "0x80", "0x80">>
      [] c = "U+212A" -> <<"0xE2", "0x84", "0xAA">>
      [] c = "U+FFFD" -> <<"0xEF", "0xBF", "0xBD">>
      [] OTHER -> <<c>>

\* the bytes that are no character by themselves
StrayBytes ==
    {"0xC2", "0xC3", "0xC4", "0xE1", "0xE2", "0xE3", "0xEF", "0x80", "0x81",
     "0x82", "0x83", "0x84", "0x85", "0x86", "0x87", "0x88", "0x89", "0x8A",
     "0x9A", "0x9F", "0xA0", "0xA8", "0xA9", "0xAA", "0xAF", "0xB0", "0xBD",
     "0xBF"}

\* len(s) of a string: its number of bytes
len(s) ==
    Len(s) + Cardinality({i \in 1..Len(s) : s[i] \in TwoByteChars})
           + 2 * Cardinality({i \in 1..Len(s) : s[i] \in ThreeByteChars})

\* unicode.ToLower: the upper-case letters and their lower-case letters; beyond
\* ASCII, E with acute, I with dot above (lowered to "i") and the Kelvin sign
\* (lowered to "k").  A byte that is no character is replaced by U+FFFD,
\* as strings.Map does.
UpperChars == <<"A","B","C","D","E","F","G","H","I","J","K","L","M",
                "N","O","P","Q","R","S","T","U","V","W","X","Y","Z",
                "U+00C9", "U+0130", "U+212A">>
LowerChars == <<"a","b","c","d","e","f","g","h","i","j","k","l","m",
                "n","o","p","q","r","s","t","u","v","w","x","y","z",
                "U+00E9", "i", "k">>

ToLowerChar(c) ==
    IF \E i \in 1..Len(UpperChars) : UpperChars[i] = c
    THEN LowerChars[CHOOSE i \in 1..Len(UpperChars) : UpperChars[i] = c]
    ELSE IF c \in StrayBytes THEN "U+FFFD"
    ELSE c

ToLower(s) == [i \in 1..Len(s) |-> ToLowerChar(s[i])]

RECURSIVE TrimLeft(_)
TrimLeft(s) ==
    IF s # <<>> /\ Head(s) \in WhiteSpace THEN TrimLeft(Tail(s)) ELSE s

RECURSIVE TrimRight(_)
TrimRight(s) ==
    IF s # <<>> /\ s[Len(s)] \in WhiteSpace
    THEN TrimRight(SubSeq(s, 1, Len(s) - 1)) ELSE s

TrimSpace(s) == TrimRight(TrimLeft(s))

\* clientCmd without the trimming and case folding
clientCmd_Plain(query) ==
    query = <<"e","x","i","t">> \/ query = <<"q","u","i","t">>

\* func clientCmd(query string) bool
clientCmd(query) ==
    LET plain == ToLower(TrimSpace(query))
    IN  plain = <<"e","x","i","t">> \/ plain = <<"q","u","i","t">>

(***************************************************************************)
(* Result values (common.Value).  A value is a record                      *)
(*   [tag, n, s, vs]                                                       *)
(* with tag the populated variant ("unset" when none is), n its integer    *)
(* fields, s its text fields (sequences of characters) and vs its element  *)
(* values.  A Map keeps its keys in s and its values in vs, in the order   *)
(* in which the range statement visits them.  A float is kept as its       *)
(* shortest decimal expansion: sign, integer part and fraction digits.     *)
(***************************************************************************)
NullType_NULL == 0
NullType_NaN == 1
NullType_BAD_DATA == 2
NullType_BAD_TYPE == 3

NVal(k) == [tag |-> "nVal", n |-> <<k>>, s |-> <<>>, vs |-> <<>>]
BVal(b) == [tag |-> "bVal", n |-> <<IF b THEN 1 ELSE 0>>, s |-> <<>>, vs |-> <<>>]
IVal(i) == [tag |-> "iVal", n |-> <<i>>, s |-> <<>>, vs |-> <<>>]
FVal(neg, int, frac) ==
    [tag |-> "fVal", n |-> <<IF neg THEN 1 ELSE 0, int>>, s |-> <<frac>>,
     vs |-> <<>>]
SVal(t) == [tag |-> "sVal", n |-> <<>>, s |-> <<t>>, vs |-> <<>>]
DVal(y, m, d) == [tag |-> "dVal", n |-> <<y, m, d>>, s |-> <<>>, vs |-> <<>>]
TVal(y, m, d, hour, minute, sec, microsec) ==
    [tag |-> "tVal", n |-> <<y, m, d, hour, minute, sec, microsec>>,
     s |-> <<>>, vs |-> <<>>]
VVal(vid) == [tag |-> "vVal", n |-> <<>>, s |-> <<vid>>, vs |-> <<>>]
EVal(src, name, dst, ranking) ==
    [tag |-> "eVal", n |-> <<ranking>>, s |-> <<src, name, dst>>, vs |-> <<>>]
\* a Path: the vid of its source and its steps <<name, dst vid, ranking>>
PVal(src, steps) ==
    [tag |-> "pVal", n |-> [k \in 1..Len(steps) |-> steps[k][3]],
     s |-> <<src>> \o [k \in 1..(2 * Len(steps)) |->
                          steps[(k + 1) \div 2][2 - (k % 2)]],
     vs |-> <<>>]
LVal(values) == [tag |-> "lVal", n |-> <<>>, s |-> <<>>, vs |-> values]
MVal(keys, values) == [tag |-> "mVal", n |-> <<>>, s |-> keys, vs |-> values]
UVal(values) == [tag |-> "uVal", n |-> <<>>, s |-> <<>>, vs |-> values]
Unset == [tag |-> "unset", n |-> <<>>, s |-> <<>>, vs |-> <<>>]

Digits == <<"0","1","2","3","4","5","6","7","8","9">>

RECURSIVE NatToChars(_)
NatToChars(n) ==
    IF n < 10 THEN <<Digits[n + 1]>>
    ELSE NatToChars(n \div 10) \o <<Digits[(n % 10) + 1]>>

\* strconv.FormatInt(i, 10) and the verb %d
FormatInt(i) == IF i < 0 THEN <<"-">> \o NatToChars(-i) ELSE NatToChars(i)

\* strconv.FormatBool
FormatBool(b) ==
    IF b = 1 THEN <<"t","r","u","e">> ELSE <<"f","a","l","s","e">>

\* strconv.FormatFloat(f, 'g', -1, 64) of a float whose shortest decimal
\* expansion has an exponent in -4..5, where 'g' does not use the %e form
FormatFloat(neg, int, frac) ==
    (IF neg = 1 THEN <<"-">> ELSE <<>>) \o NatToChars(int)
    \o (IF frac = <<>> THEN <<>> ELSE <<".">> \o frac)

RECURSIVE Flatten(_)
Flatten(ss) == IF ss = <<>> THEN <<>> ELSE Head(ss) \o Flatten(Tail(ss))

\* val2String with an empty placeholder at depth 0 and bare Map keys
RECURSIVE val2String_main(_, _)
val2String_main(value, depth) ==
    IF depth = 0 THEN <<>>
    ELSE CASE value.tag = "nVal" ->
                 (CASE value.n[1] = NullType_NULL     -> <<"N","U","L","L">>
                    [] value.n[1] = NullType_NaN      -> <<"N","a","N">>
                    [] value.n[1] = NullType_BAD_DATA -> <<"B","A","D","_","D","A","T","A">>
                    [] value.n[1] = NullType_BAD_TYPE -> <<"B","A","D","_","T","Y","P","E">>
                    [] OTHER                          -> <<>>)
           [] value.tag = "bVal" -> FormatBool(value.n[1])
           [] value.tag = "iVal" -> FormatInt(value.n[1])
           [] value.tag = "fVal" ->
                 FormatFloat(value.n[1], value.n[2], value.s[1])
           [] value.tag = "sVal" -> <<"\"">> \o value.s[1] \o <<"\"">>
           [] value.tag = "dVal" ->
                 FormatInt(value.n[1]) \o <<"-">> \o FormatInt(value.n[2])
                    \o <<"-">> \o FormatInt(value.n[3])
           [] value.tag = "tVal" ->
                 FormatInt(value.n[1]) \o <<"-">> \o FormatInt(value.n[2])
                    \o <<"-">> \o FormatInt(value.n[3]) \o <<" ">>
                    \o FormatInt(value.n[4]) \o <<":">> \o FormatInt(value.n[5])
                    \o <<":">> \o FormatInt(value.n[6]) \o <<":">>
                    \o FormatInt(value.n[7])
           [] value.tag = "vVal" -> value.s[1]
           [] value.tag = "eVal" ->
                 value.s[1] \o <<"-","[">> \o value.s[2] \o <<"]","-",">">>
                    \o value.s[3] \o <<"@">> \o FormatInt(value.n[1])
           [] value.tag = "pVal" ->
                 value.s[1]
                 \o Flatten([k \in 1..Len(value.n) |->
                        <<"-","[">> \o value.s[2 * k] \o <<"]","-",">">>
                        \o value.s[2 * k + 1] \o <<"@">>
                        \o FormatInt(value.n[k])])
           [] value.tag = "lVal" ->
                 <<"[">>
                 \o Flatten([i \in 1..Len(value.vs) |->
                        val2String_main(value.vs[i], depth - 1) \o <<",">>])
                 \o <<"]">>
           [] value.tag = "mVal" ->
                 <<"{">>
                 \o Flatten([i \in 1..Len(value.vs) |->
                        value.s[i] \o <<":">>
                        \o val2String_main(value.vs[i], depth - 1) \o <<",">>])
                 \o <<"}">>
           [] value.tag = "uVal" ->
                 <<"{">>
                 \o Flatten([i \in 1..Len(value.vs) |->
                        val2String_main(value.vs[i], depth - 1) \o <<",">>])
                 \o <<"}">>
           [] OTHER -> <<>>

\* func val2String(value *common.Value, depth uint) string
RECURSIVE val2String(_, _)
val2String(value, depth) ==
    IF depth = 0 THEN <<".", ".", ".">>
    ELSE CASE value.tag = "nVal" ->
                 (CASE value.n[1] = NullType_NULL     -> <<"N","U","L","L">>
                    [] value.n[1] = NullType_NaN      -> <<"N","a","N">>
                    [] value.n[1] = NullType_BAD_DATA -> <<"B","A","D","_","D","A","T","A">>
                    [] value.n[1] = NullType_BAD_TYPE -> <<"B","A","D","_","T","Y","P","E">>
                    [] OTHER                          -> <<>>)
           [] value.tag = "bVal" -> FormatBool(value.n[1])
           [] value.tag = "iVal" -> FormatInt(value.n[1])
           [] value.tag = "fVal" ->
                 FormatFloat(value.n[1], value.n[2], value.s[1])
           [] value.tag = "sVal" -> <<"\"">> \o value.s[1] \o <<"\"">>
           [] value.tag = "dVal" ->
                 FormatInt(value.n[1]) \o <<"-">> \o FormatInt(value.n[2])
                    \o <<"-">> \o FormatInt(value.n[3])
           [] value.tag = "tVal" ->
                 FormatInt(value.n[1]) \o <<"-">> \o FormatInt(value.n[2])
                    \o <<"-">> \o FormatInt(value.n[3]) \o <<" ">>
                    \o FormatInt(value.n[4]) \o <<":">> \o FormatInt(value.n[5])
                    \o <<":">> \o FormatInt(value.n[6]) \o <<":">>
                    \o FormatInt(value.n[7])
           [] value.tag = "vVal" -> value.s[1]
           [] value.tag = "eVal" ->
                 value.s[1] \o <<"-","[">> \o value.s[2] \o <<"]","-",">">>
                    \o value.s[3] \o <<"@">> \o FormatInt(value.n[1])
           [] value.tag = "pVal" ->
                 value.s[1]
                 \o Flatten([k \in 1..Len(value.n) |->
                        <<"-","[">> \o value.s[2 * k] \o <<"]","-",">">>
                        \o value.s[2 * k + 1] \o <<"@">>
                        \o FormatInt(value.n[k])])
           [] value.tag = "lVal" ->
                 <<"[">>
                 \o Flatten([i \in 1..Len(value.vs) |->
                        val2String(value.vs[i], depth - 1) \o <<",">>])
                 \o <<"]">>
           [] value.tag = "mVal" ->
                 <<"{">>
                 \o Flatten([i \in 1..Len(value.vs) |->
                        <<"\"">> \o value.s[i] \o <<"\"">> \o <<":">>
                        \o val2String(value.vs[i], depth - 1) \o <<",">>])
                 \o <<"}">>
           [] value.tag = "uVal" ->
                 <<"{">>
                 \o Flatten([i \in 1..Len(value.vs) |->
                        val2String(value.vs[i], depth - 1) \o <<",">>])
                 \o <<"}">>
           [] OTHER -> <<>>

(***************************************************************************)
(* Tables (ngdb.DataSet): [columnNames, rows], a row being a sequence of   *)
(* values.                                                                 *)
(***************************************************************************)
align == 2
headerChar == "="
rowChar == "-"
colDelimiter == "|"
RenderDepth == 256

\* max that keeps its second argument
max_Second(v1, v2) == v2

\* func max(v1 uint, v2 uint) uint
max(v1, v2) == IF v1 > v2 THEN v1 ELSE v2

\* func sum(a []uint) uint
RECURSIVE sum(_)
sum(a) == IF a = <<>> THEN 0 ELSE Head(a) + sum(Tail(a))

\* strings.Repeat
Repeat(c, n) == [i \in 1..n |-> c]

\* printRow without the trailing spaces
printRow_NoPad(row, colSpec) ==
    Flatten([i \in 1..Len(row) |-> <<"|">> \o Repeat(" ", align) \o row[i]])
    \o <<"|">>

\* func printRow(row []string, colSpec TableSpec): the line it prints
printRow(row, colSpec) ==
    Flatten([i \in 1..Len(row) |->
        <<"|">> \o Repeat(" ", align) \o row[i]
        \o (IF len(row[i]) < colSpec[i] + align
            THEN Repeat(" ", colSpec[i] + align - len(row[i]))
            ELSE <<>>)])
    \o <<"|">>

\* what a function gives when the runtime panics inside it
Panic == "panic: runtime error: index out of range"

\* printTable: tableRows[i] has columnSize entries and is indexed by the
\* position of each cell of row i, so a row with more cells than there are
\* column names makes tableRows[i][j] panic
indexOutOfRange(table) ==
    \E i \in 1..Len(table.rows) : Len(table.rows[i]) > Len(table.columnNames)

\* printTable: tableRows, the rendered cells (unfilled cells stay "")
tableRows(table) ==
    IF indexOutOfRange(table) THEN Panic
    ELSE LET columnSize == Len(table.columnNames)
         IN  [i \in 1..Len(table.rows) |->
                 [j \in 1..columnSize |->
                     IF j <= Len(table.rows[i])
                     THEN val2String(table.rows[i][j], RenderDepth)
                     ELSE <<>>]]

\* the widest of cells j of the first k rows and w
RECURSIVE colWidth(_, _, _, _)
colWidth(rows, j, k, w) ==
    IF k = 0 THEN w
    ELSE max(len(rows[k][j]), colWidth(rows, j, k - 1, w))

\* printTable: tableSpec, the column widths
tableSpec(table) ==
    IF indexOutOfRange(table) THEN Panic
    ELSE LET rows == tableRows(table)
         IN  [j \in 1..Len(table.columnNames) |->
                 colWidth(rows, j, Len(table.rows), len(table.columnNames[j]))]

\* printTable: totalLineLength
totalLineLength(table) ==
    IF indexOutOfRange(table) THEN Panic
    ELSE sum(tableSpec(table)) + Len(table.columnNames) * align * 2
            + Len(table.columnNames) + 1

\* printTable that prints the header only when there are rows, and no line
\* after the last row
printTable_Bare(table) ==
    LET spec == tableSpec(table)
        rows == tableRows(table)
        n == Len(rows)
        length == totalLineLength(table)
        headerLine == Repeat(headerChar, length)
        rowLine == Repeat(rowChar, length)
    IN  (IF n = 0 THEN <<>>
         ELSE <<headerLine, printRow(table.columnNames, spec), headerLine>>)
        \o Flatten([i \in 1..n |->
               <<printRow(rows[i], spec)>> \o (IF i < n THEN <<rowLine>> ELSE <<>>)])
        \o << <<"G","o","t"," ">> \o FormatInt(n)
              \o <<" ","r","o","w","s",","," ">>
              \o FormatInt(Len(table.columnNames))
              \o <<" ","c","o","l","u","m","n","s",".">> >>

\* func printTable(table *ngdb.DataSet): the lines it prints, in order; it
\* panics before the first line when a row has more cells than column names
printTable(table) ==
    IF indexOutOfRange(table) THEN Panic
    ELSE
    LET spec == tableSpec(table)
        rows == tableRows(table)
        length == sum(spec) + Len(table.columnNames) * align * 2
                    + Len(table.columnNames) + 1
        headerLine == Repeat(headerChar, length)
        rowLine == Repeat(rowChar, length)
    IN  <<headerLine, printRow(table.columnNames, spec), headerLine>>
        \o Flatten([i \in 1..Len(rows) |-> <<printRow(rows[i], spec), rowLine>>])
        \o << <<"G","o","t"," ">> \o FormatInt(Len(table.rows))
              \o <<" ","r","o","w","s",","," ">>
              \o FormatInt(Len(table.columnNames))
              \o <<" ","c","o","l","u","m","n","s",".">> >>

\* the text of a sequence of characters, as one written piece
RECURSIVE Str(_)
Str(cs) == IF cs = <<>> THEN "" ELSE Head(cs) \o Str(Tail(cs))

(***************************************************************************)
(* Inputs of the model: the flag values, the lines an input source may     *)
(* deliver, the errors a read may report and the responses the server may  *)
(* send.                                                                   *)
(***************************************************************************)
Modes == {"interactive", "script", "file"}
Users == {"user"}

Lines == { <<>>,                                  \* empty line
           <<" ">>,                               \* whitespace only
           <<"e","x","i","t">>,
           <<" ","Q","u","I","t","\t">>,
           <<"U+000B","E","X","U+0130","T","U+00A0">>,
           <<"G","O">> }

ReadErrors(m) ==
    CASE m = "interactive" -> {"EOF", "Interrupt", "Other"}
      [] m = "script"      -> {"EOF"}
      [] m = "file"        -> {"EOF", "Other"}

\* bufio.NewReader: the size of the buffer of nCli's reader
BufSize == 4096

\* lines of a file whose lines end with "\r\n", each with the carriage
\* return of its end of line: an empty line and a query
CRLines == { <<"\r">>, <<"G","O","\r">> }

\* a line that does not fit the reader's buffer: BufSize + 1 bytes
LongLine == Repeat("G", BufSize) \o <<"O">>

\* a line that fills the reader's buffer: BufSize bytes
FullLine == Repeat("G", BufSize)

\* the lines the source may deliver as its n-th, each with nl: whether a
\* newline follows it (a line without one is the last of the input).  The
\* lines of a terminal end with a newline.  The lines that fill the buffer
\* are drawn only from standard input or a file, and only as the first
\* line; the choice of nl is drawn for them alone.  From standard input or
\* a file the source also delivers the lines that end with "\r\n".
SourceLines(m, n) ==
    {[text |-> l, nl |-> TRUE] : l \in Lines}
    \cup (IF m # "interactive" /\ n = 0
          THEN {[text |-> LongLine, nl |-> TRUE],
                [text |-> FullLine, nl |-> TRUE],
                [text |-> FullLine, nl |-> FALSE]}
          ELSE {})
    \cup (IF m # "interactive"
          THEN {[text |-> l, nl |-> TRUE] : l \in CRLines}
          ELSE {})

\* len(l[:k]) where k counts characters: the bytes of the first k
\* characters of l
lenFirst(l, k) ==
    k + Cardinality({i \in 1..k : l[i] \in TwoByteChars})
      + 2 * Cardinality({i \in 1..k : l[i] \in ThreeByteChars})

\* the number of whole characters of l within its first BufSize bytes, for
\* a text l of BufSize bytes or more
wholeChars(l) ==
    IF Len(l) >= BufSize /\ lenFirst(l, BufSize) = BufSize
    THEN BufSize
    ELSE CHOOSE k \in (BufSize \div 3)..BufSize :
             /\ k <= Len(l)
             /\ lenFirst(l, k) <= BufSize
             /\ (k = Len(l) \/ lenFirst(l, k + 1) > BufSize)

\* the buffer once it is full of the text l: head is its BufSize bytes and
\* tail what is not read yet, a character across the last byte of the
\* buffer being cut between its bytes
fillBuffer(l) ==
    LET k == wholeChars(l)
        room == BufSize - lenFirst(l, k)
    IN  IF room = 0
        THEN [head |-> SubSeq(l, 1, k), tail |-> SubSeq(l, k + 1, Len(l))]
        ELSE LET bytes == Utf8(l[k + 1])
             IN  [head |-> SubSeq(l, 1, k) \o SubSeq(bytes, 1, room),
                  tail |-> SubSeq(bytes, room + 1, Len(bytes))
                               \o SubSeq(l, k + 2, Len(l))]

\* s without a carriage return at its end
dropCR(s) ==
    IF s # <<>> /\ s[Len(s)] = "\r" THEN SubSeq(s, 1, Len(s) - 1) ELSE s

\* what bufio.Reader.ReadLine returns of the full buffer b (ErrBufferFull):
\* its bytes with isPrefix set, a carriage return at the end of the buffer
\* being put back for the next call; the rest is left for the next call
bufferFull(b, nl) ==
    LET back == b.head[Len(b.head)] = "\r"
        tail == IF back THEN <<"\r">> \o b.tail ELSE b.tail
    IN  [line |-> IF back THEN dropCR(b.head) ELSE b.head,
         isPrefix |-> TRUE, err |-> "nil",
         rest |-> IF tail # <<>> \/ nl THEN <<tail>> ELSE <<>>]

\* bufio.Reader.ReadLine on the unread text l of a line, nl telling whether
\* a newline follows it.  When l has BufSize bytes or more the buffer fills
\* (b is the one filled buffer).  Else the call returns l without its end
\* of line ("\n" or "\r\n"), and io.EOF when nothing is left of the input.
bufioReadLine(l, nl) ==
    IF len(l) >= BufSize
    THEN CHOOSE r \in {bufferFull(b, nl) : b \in {fillBuffer(l)}} : TRUE
    ELSE IF l = <<>> /\ ~nl
    THEN [line |-> <<>>, isPrefix |-> FALSE, err |-> "EOF", rest |-> <<>>]
    ELSE [line |-> IF nl THEN dropCR(l) ELSE l,
          isPrefix |-> FALSE, err |-> "nil", rest |-> <<>>]

\* func (l nCli) ReadLine(): s, _, e := l.io.ReadLine(); isPrefix is dropped
nCliReadLine(l, nl, fresh) ==
    LET r == bufioReadLine(l, nl)
    IN  [err |-> r.err, line |-> r.line, rest |-> r.rest, fresh |-> fresh,
         ended |-> ~nl]

\* func (l iCli) ReadLine(): readline returns the line whole
iCliReadLine(l, nl, fresh) ==
    [err |-> "nil", line |-> l, rest |-> <<>>, fresh |-> fresh, ended |-> ~nl]

\* c.ReadLine() on the text l, dispatched on the concrete Cli; fresh is <<l>>
\* when l is a line the source delivers now, <<>> when it is unread text
CliReadLine(m, l, nl, fresh) ==
    IF m = "interactive" THEN iCliReadLine(l, nl, fresh)
    ELSE nCliReadLine(l, nl, fresh)

\* the line that the source delivers with src: its text without the
\* carriage return of an end of line "\r\n"
lineOf(src) == IF src.nl THEN dropCR(src.text) ELSE src.text

\* a failed read: ("", err); what is unread stays unread
ReadFailure(e) ==
    [err |-> e, line |-> <<>>, rest |-> pending, fresh |-> <<>>,
     ended |-> ended]

\* what one ReadLine call may return: (line, nil) or ("", err).  While the
\* rest of a line is unread the call returns its next piece, or the error
\* of the read that fetches it; once the input has ended it returns io.EOF.
ReadResults(m, n) ==
    IF pending # <<>>
    THEN {CliReadLine(m, pending[1], ~ended, <<>>)}
         \cup {ReadFailure(e) : e \in ReadErrors(m) \ {"EOF"}}
    ELSE IF ended
    THEN {ReadFailure("EOF")}
    ELSE (IF n < MaxReads
          THEN {CliReadLine(m, src.text, src.nl, <<lineOf(src)>>) :
                    src \in SourceLines(m, n)}
          ELSE {})
         \cup {ReadFailure(e) : e \in ReadErrors(m)}

Spaces == {"", "myspace"}
ErrorCodes == {ErrorCode_SUCCEEDED, -8}

\* a table with two columns and two rows, and one without rows
TablePeople ==
    [columnNames |-> << <<"i","d">>, <<"n","a","m","e">> >>,
     rows |-> << <<IVal(1), SVal(<<"a","n","n">>)>>,
                 <<IVal(-20), LVal(<<IVal(1), NVal(NullType_NULL)>>)>> >>]
TableEmpty ==
    [columnNames |-> << <<"N","a","m","e">> >>, rows |-> <<>>]

\* a table whose row has more cells than there are column names
TableWide ==
    [columnNames |-> << <<"i","d">> >>, rows |-> << <<IVal(7), IVal(7)>> >>]

Responses ==
    [errorCode : ErrorCodes, spaceName : Spaces, data : {<<>>}]
    \cup {[errorCode |-> ErrorCode_SUCCEEDED, spaceName |-> "myspace",
           data |-> <<TablePeople, TableEmpty>>]}
    \cup {[errorCode |-> ErrorCode_SUCCEEDED, spaceName |-> "myspace",
           data |-> <<TableEmpty, TableWide>>]}

(***************************************************************************)
(* Output.                                                                 *)
(***************************************************************************)
\* func welcome(interactive bool)
welcome(interactive) ==
    IF ~interactive THEN <<>>
    ELSE <<"Welcome to Nebula Graph ", Version, "!", "\n">>

\* func bye(username string, interactive bool)
bye(user, interactive) ==
    IF ~interactive THEN <<>>
    ELSE <<"Bye ", user, "!", "\n">>

Escape(code) == ttyColorPrefix \o code \o ttyColorSuffix

\* func prompt(space string, user string, isErr bool, isTTY bool)
prompt(space, user, isErr, tty) ==
    <<"\n">>
    \o (IF tty THEN <<Escape(ttyColorBold)>> ELSE <<>>)
    \o (IF tty /\ isErr THEN <<Escape(ttyColorRed)>> ELSE <<>>)
    \o <<"(", user, "@", NebulaLabel, ") [(", space, ")]> ">>
    \o (IF tty THEN <<Escape(ttyColorReset)>> ELSE <<>>)

\* func (l iCli) Prompt(space string, isErr bool)
iCliPrompt(space, isErr) == prompt(space, username, isErr, isTTY)

\* nCli.Prompt that renders like iCli.Prompt
nCliPrompt_Renders(space, isErr) == prompt(space, username, isErr, FALSE)

\* func (l nCli) Prompt(space string, isErr bool): nothing
nCliPrompt(space, isErr) == <<>>

\* func (l iCli) Interactive() / func (l nCli) Interactive()
Interactive == mode = "interactive"

\* c.Prompt(space, isErr), dispatched on the concrete Cli
CliPrompt(space, isErr) ==
    IF Interactive THEN iCliPrompt(space, isErr) ELSE nCliPrompt(space, isErr)

\* the record kept of a prompt that was written: its text, and how many
\* reads and responses had happened when it was written
PromptEvent(text, rd, rs) ==
    IF text = <<>> THEN <<>> ELSE << [text |-> text, rd |-> rd, rs |-> rs] >>

\* printResp: the tables of resp on which printTable panics
panicTables(resp) ==
    IF resp.errorCode # ErrorCode_SUCCEEDED THEN {}
    ELSE {t \in 1..Len(resp.data) : indexOutOfRange(resp.data[t])}

\* printResp panics: it calls printTable on a table on which that panics
printRespPanics(resp) == panicTables(resp) # {}

\* func printResp(resp, duration): what it prints; when printTable panics,
\* what it has printed until then (the tables before, no time line)
printResp(resp) ==
    IF resp.errorCode # ErrorCode_SUCCEEDED
    THEN <<"[ERROR (", Str(FormatInt(resp.errorCode)), ")]", "\n">>
    ELSE LET bad == panicTables(resp)
             printed == IF bad = {} THEN Len(resp.data)
                        ELSE (CHOOSE t \in bad : \A u \in bad : t <= u) - 1
         IN  Flatten([t \in 1..printed |->
                LET lines == printTable(resp.data[t])
                IN  Flatten([l \in 1..Len(lines) |-> <<Str(lines[l]), "\n">>])])
             \o (IF bad = {} 
                 THEN <<"time spent ", "latency", "/", "duration", " us", "\n">>
                 ELSE <<>>)

(***************************************************************************)
(* The decisions of loop.                                                  *)
(***************************************************************************)
\* loop's result for a read error that treats only io.EOF as graceful
loopResult_OnlyEOF(err) == IF err = "EOF" THEN "nil" ELSE err

\* loop's result for a read error that is never reported
loopResult_Swallow(err) == "nil"

\* loop: if err == io.EOF || err == readline.ErrInterrupt { return nil }; return err
loopResult(err) == IF err = "EOF" \/ err = "Interrupt" THEN "nil" ELSE err

\* loop: if len(line) == 0
isEmptyLine(l) == len(l) = 0

\* the prompt after an empty line, rendered without the namespace
emptyLinePrompt_NoSpace == CliPrompt("", FALSE)

\* loop: c.Prompt(currentSpace, false) after an empty line
emptyLinePrompt == CliPrompt(currentSpace, FALSE)

\* loop: c.Prompt(currentSpace, resp.GetErrorCode() != graph.ErrorCode_SUCCEEDED)
\* with currentSpace = string(resp.SpaceName)
responsePrompt(resp) ==
    CliPrompt(resp.spaceName, resp.errorCode # ErrorCode_SUCCEEDED)

(***************************************************************************)
(* The process.                                                            *)
(***************************************************************************)
PcValues == {"start", "setup", "loopEntry", "AwaitingLine", "Dispatching",
             "loopReturned", "exited"}

\* main before its first statement: the flags are parsed, nothing has run
InitProc ==
    /\ mode \in Modes
    /\ username \in Users
    /\ isTTY = FALSE
    /\ pc = "start"
    /\ connected = FALSE
    /\ disconnects = 0
    /\ deferred = <<>>
    /\ rlOpen = FALSE
    /\ fdOpen = FALSE
    /\ fdEverOpened = FALSE
    /\ currentSpace = ""
    /\ line = <<>>
    /\ reads = <<>>
    /\ execs = <<>>
    /\ resps = <<>>
    /\ prompts = <<>>
    /\ out = <<>>
    /\ errlog = <<>>
    /\ loopErr = "unset"
    /\ exitCode = <<>>
    /\ fed = <<>>
    /\ pending = <<>>
    /\ ended = FALSE

Init ==
    /\ InitProc
    /\ call = <<>>

\* log.Fatalf: write the message, then os.Exit(1); deferred calls do not run
Fatalf(msg) ==
    /\ errlog' = Append(errlog, msg)
    /\ pc' = "exited"
    /\ exitCode' = <<1>>

\* main: ngdb.NewClient or client.Connect fails
ConnectFail ==
    /\ pc = "start"
    /\ \E msg \in {"Fail to create client", "Fail to connect server"} : Fatalf(msg)
    /\ UNCHANGED <<fed, pending, ended, call>>
    /\ UNCHANGED <<mode, username, isTTY, connected, disconnects, deferred,
                   rlOpen, fdOpen, fdEverOpened, currentSpace, line, reads,
                   execs, resps, prompts, out, loopErr>>

\* main: NewClient, Connect, welcome, defer bye, defer client.Disconnect
Connect ==
    /\ pc = "start"
    /\ connected' = TRUE
    /\ out' = out \o welcome(Interactive)
    /\ deferred' = <<"Disconnect", "bye">>
    /\ pc' = "setup"
    /\ UNCHANGED <<fed, pending, ended, call>>
    /\ UNCHANGED <<mode, username, isTTY, disconnects, rlOpen, fdOpen,
                   fdEverOpened, currentSpace, line, reads, execs, resps,
                   prompts, errlog, loopErr, exitCode>>

\* main: readline.NewEx or os.Open fails
OpenInputFail ==
    /\ pc = "setup"
    /\ \/ mode = "interactive" /\ Fatalf("Create readline failed")
       \/ mode = "file" /\ Fatalf("Open file failed")
    /\ UNCHANGED <<fed, pending, ended, call>>
    /\ UNCHANGED <<mode, username, isTTY, connected, disconnects, deferred,
                   rlOpen, fdOpen, fdEverOpened, currentSpace, line, reads,
                   execs, resps, prompts, out, loopErr>>

\* main: build the Cli (NewiCli over a readline instance, NewnCli over a reader)
OpenInput ==
    /\ pc = "setup"
    /\ \/ /\ mode = "interactive"
          /\ rlOpen' = TRUE
          /\ isTTY' \in BOOLEAN
          /\ UNCHANGED <<fdOpen, fdEverOpened>>
       \/ /\ mode = "script"
          /\ UNCHANGED <<rlOpen, isTTY, fdOpen, fdEverOpened>>
       \/ /\ mode = "file"
          /\ fdOpen' = TRUE
          /\ fdEverOpened' = TRUE
          /\ UNCHANGED <<rlOpen, isTTY>>
    /\ pc' = "loopEntry"
    /\ UNCHANGED <<fed, pending, ended, call>>
    /\ UNCHANGED <<mode, username, connected, disconnects, deferred,
                   currentSpace, line, reads, execs, resps, prompts, out,
                   errlog, loopErr, exitCode>>

\* loop: c.Prompt("", false); currentSpace := ""
LoopEnter ==
    /\ pc = "loopEntry"
    /\ out' = out \o CliPrompt("", FALSE)
    /\ prompts' = prompts \o PromptEvent(CliPrompt("", FALSE), 0, 0)
    /\ currentSpace' = ""
    /\ pc' = "AwaitingLine"
    /\ UNCHANGED <<fed, pending, ended, call>>
    /\ UNCHANGED <<mode, username, isTTY, connected, disconnects, deferred,
                   rlOpen, fdOpen, fdEverOpened, line, reads, execs, resps,
                   errlog, loopErr, exitCode>>

\* a read error after which a prompt is rendered before the loop returns
ReadLineError_Prompts ==
    /\ pc = "AwaitingLine"
    /\ \E r \in ReadResults(mode, Len(reads)) :
          /\ r.err # "nil"
          /\ reads' = Append(reads, [err |-> r.err, line |-> r.line])
          /\ line' = r.line
          /\ fed' = fed \o r.fresh
          /\ pending' = r.rest
          /\ ended' = r.ended
          /\ errlog' = errlog \o <<"Get line failed: ", r.err>>
          /\ loopErr' = loopResult(r.err)
    /\ pc' = "loopReturned"
    /\ out' = out \o CliPrompt(currentSpace, TRUE)
    /\ prompts' = prompts \o PromptEvent(CliPrompt(currentSpace, TRUE),
                                          Len(reads) + 1, Len(resps))
    /\ UNCHANGED call
    /\ UNCHANGED <<mode, username, isTTY, connected, disconnects, deferred,
                   rlOpen, fdOpen, fdEverOpened, currentSpace, execs, resps,
                   exitCode>>

\* loop: c.ReadLine() returned an error
ReadLineError ==
    /\ pc = "AwaitingLine"
    /\ \E r \in ReadResults(mode, Len(reads)) :
          /\ r.err # "nil"
          /\ reads' = Append(reads, [err |-> r.err, line |-> r.line])
          /\ line' = r.line
          /\ fed' = fed \o r.fresh
          /\ pending' = r.rest
          /\ ended' = r.ended
          /\ errlog' = errlog \o <<"Get line failed: ", r.err>>
          /\ loopErr' = loopResult(r.err)
    /\ pc' = "loopReturned"
    /\ UNCHANGED call
    /\ UNCHANGED <<mode, username, isTTY, connected, disconnects, deferred,
                   rlOpen, fdOpen, fdEverOpened, currentSpace, execs, resps,
                   prompts, out, exitCode>>

\* loop: a line was read and len(line) == 0: prompt again, continue
ReadLineEmpty ==
    /\ pc = "AwaitingLine"
    /\ \E r \in ReadResults(mode, Len(reads)) :
          /\ r.err = "nil"
          /\ isEmptyLine(r.line)
          /\ reads' = Append(reads, [err |-> r.err, line |-> r.line])
          /\ line' = r.line
          /\ fed' = fed \o r.fresh
          /\ pending' = r.rest
          /\ ended' = r.ended
    /\ out' = out \o emptyLinePrompt
    /\ prompts' = prompts \o PromptEvent(emptyLinePrompt, Len(reads) + 1, Len(resps))
    /\ UNCHANGED call
    /\ UNCHANGED <<mode, username, isTTY, pc, connected, disconnects, deferred,
                   rlOpen, fdOpen, fdEverOpened, currentSpace, execs, resps,
                   errlog, loopErr, exitCode>>

\* a client command after which the loop goes on to the next read
ReadLineClientCmd_Continue ==
    /\ pc = "AwaitingLine"
    /\ \E r \in ReadResults(mode, Len(reads)) :
          /\ r.err = "nil"
          /\ ~isEmptyLine(r.line)
          /\ clientCmd(r.line)
          /\ reads' = Append(reads, [err |-> r.err, line |-> r.line])
          /\ line' = r.line
          /\ fed' = fed \o r.fresh
          /\ pending' = r.rest
          /\ ended' = r.ended
    /\ UNCHANGED <<loopErr, pc>>
    /\ UNCHANGED call
    /\ UNCHANGED <<mode, username, isTTY, connected, disconnects, deferred,
                   rlOpen, fdOpen, fdEverOpened, currentSpace, execs, resps,
                   prompts, out, errlog, exitCode>>

\* loop: a line was read and clientCmd(lineString) holds: return nil
ReadLineClientCmd ==
    /\ pc = "AwaitingLine"
    /\ \E r \in ReadResults(mode, Len(reads)) :
          /\ r.err = "nil"
          /\ ~isEmptyLine(r.line)
          /\ clientCmd(r.line)
          /\ reads' = Append(reads, [err |-> r.err, line |-> r.line])
          /\ line' = r.line
          /\ fed' = fed \o r.fresh
          /\ pending' = r.rest
          /\ ended' = r.ended
    /\ loopErr' = "nil"
    /\ pc' = "loopReturned"
    /\ UNCHANGED call
    /\ UNCHANGED <<mode, username, isTTY, connected, disconnects, deferred,
                   rlOpen, fdOpen, fdEverOpened, currentSpace, execs, resps,
                   prompts, out, errlog, exitCode>>

\* loop: a line was read that is sent to the server: client.Execute(lineString)
ReadLineQuery ==
    /\ pc = "AwaitingLine"
    /\ \E r \in ReadResults(mode, Len(reads)) :
          /\ r.err = "nil"
          /\ ~isEmptyLine(r.line)
          /\ ~clientCmd(r.line)
          /\ reads' = Append(reads, [err |-> r.err, line |-> r.line])
          /\ line' = r.line
          /\ fed' = fed \o r.fresh
          /\ pending' = r.rest
          /\ ended' = r.ended
          /\ execs' = Append(execs, [query |-> r.line, rd |-> Len(reads) + 1,
                                     at |-> Len(out),
                                     ln |-> Len(fed \o r.fresh)])
    /\ pc' = "Dispatching"
    /\ UNCHANGED call
    /\ UNCHANGED <<mode, username, isTTY, connected, disconnects, deferred,
                   rlOpen, fdOpen, fdEverOpened, currentSpace, resps,
                   prompts, out, errlog, loopErr, exitCode>>

\* an Execute error that is logged and followed by the next read
ExecuteError_Continue ==
    /\ pc = "Dispatching"
    /\ errlog' = Append(errlog, "Execute error")
    /\ pc' = "AwaitingLine"
    /\ UNCHANGED <<fed, pending, ended, call>>
    /\ UNCHANGED <<mode, username, isTTY, connected, disconnects, deferred,
                   rlOpen, fdOpen, fdEverOpened, currentSpace, line, reads,
                   execs, resps, prompts, out, loopErr, exitCode>>

\* loop: Execute returned an error: log.Fatalf("Execute error, ...")
ExecuteError ==
    /\ pc = "Dispatching"
    /\ Fatalf("Execute error")
    /\ UNCHANGED <<fed, pending, ended, call>>
    /\ UNCHANGED <<mode, username, isTTY, connected, disconnects, deferred,
                   rlOpen, fdOpen, fdEverOpened, currentSpace, line, reads,
                   execs, resps, prompts, out, loopErr>>

\* a response handler that ends the loop with an error on a failed query
ExecuteResponse_FailStops ==
    /\ pc = "Dispatching"
    /\ \E resp \in Responses :
          /\ ~printRespPanics(resp)
          /\ out' = out \o printResp(resp) \o <<"time.Now", "\n">>
          /\ resps' = Append(resps, resp)
          /\ currentSpace' = resp.spaceName
          /\ IF resp.errorCode # ErrorCode_SUCCEEDED
             THEN pc' = "loopReturned" /\ loopErr' = "Other"
             ELSE pc' = "AwaitingLine" /\ loopErr' = loopErr
    /\ UNCHANGED <<fed, pending, ended, call>>
    /\ UNCHANGED <<mode, username, isTTY, connected, disconnects, deferred,
                   rlOpen, fdOpen, fdEverOpened, line, reads, execs, errlog,
                   prompts, exitCode>>

\* loop: Execute returned a response: printResp, time stamp,
\* currentSpace = string(resp.SpaceName), c.Prompt
ExecuteResponse ==
    /\ pc = "Dispatching"
    /\ \E resp \in Responses :
          /\ ~printRespPanics(resp)
          /\ out' = out \o printResp(resp) \o <<"time.Now", "\n">>
                        \o responsePrompt(resp)
          /\ prompts' = prompts \o
                PromptEvent(responsePrompt(resp), Len(reads), Len(resps) + 1)
          /\ resps' = Append(resps, resp)
          /\ currentSpace' = resp.spaceName
    /\ pc' = "AwaitingLine"
    /\ UNCHANGED <<fed, pending, ended, call>>
    /\ UNCHANGED <<mode, username, isTTY, connected, disconnects, deferred,
                   rlOpen, fdOpen, fdEverOpened, line, reads, execs, errlog,
                   loopErr, exitCode>>

\* loop: Execute returned a response on which printResp panics: what was
\* printed before stays, the panic unwinds loop and main, whose deferred
\* calls client.Disconnect() and bye(username, interactive) run, and the
\* runtime reports the panic and exits with status 2; fd.Close() is not
\* reached
ExecuteResponsePanic ==
    /\ pc = "Dispatching"
    /\ \E resp \in Responses :
          /\ printRespPanics(resp)
          /\ out' = out \o printResp(resp) \o bye(username, Interactive)
          /\ resps' = Append(resps, resp)
    /\ deferred = <<"Disconnect", "bye">>
    /\ disconnects' = disconnects + 1
    /\ connected' = FALSE
    /\ deferred' = <<>>
    /\ errlog' = Append(errlog, Panic)
    /\ pc' = "exited"
    /\ exitCode' = <<2>>
    /\ UNCHANGED <<fed, pending, ended, call>>
    /\ UNCHANGED <<mode, username, isTTY, rlOpen, fdOpen, fdEverOpened,
                   currentSpace, line, reads, execs, prompts, loopErr>>

\* main: loop returned an error: (fd.Close();) os.Exit(1); deferred calls do
\* not run
ExitFailure ==
    /\ pc = "loopReturned"
    /\ loopErr # "nil"
    /\ fdOpen' = FALSE
    /\ pc' = "exited"
    /\ exitCode' = <<1>>
    /\ UNCHANGED <<fed, pending, ended, call>>
    /\ UNCHANGED <<mode, username, isTTY, connected, disconnects, deferred,
                   rlOpen, fdEverOpened, currentSpace, line, reads, execs,
                   resps, prompts, out, errlog, loopErr>>

\* main: loop returned nil: (fd.Close();) return, running the deferred calls
\* client.Disconnect() and then bye(username, interactive)
MainReturn ==
    /\ pc = "loopReturned"
    /\ loopErr = "nil"
    /\ fdOpen' = FALSE
    /\ deferred = <<"Disconnect", "bye">>
    /\ disconnects' = disconnects + 1
    /\ connected' = FALSE
    /\ out' = out \o bye(username, Interactive)
    /\ deferred' = <<>>
    /\ pc' = "exited"
    /\ exitCode' = <<0>>
    /\ UNCHANGED <<fed, pending, ended, call>>
    /\ UNCHANGED <<mode, username, isTTY, rlOpen, fdEverOpened, currentSpace,
                   line, reads, execs, resps, prompts, errlog, loopErr>>

Next ==
    \/ ConnectFail
    \/ Connect
    \/ OpenInputFail
    \/ OpenInput
    \/ LoopEnter
    \/ ReadLineError
    \/ ReadLineEmpty
    \/ ReadLineClientCmd
    \/ ReadLineQuery
    \/ ExecuteError
    \/ ExecuteResponse
    \/ ExecuteResponsePanic
    \/ ExitFailure
    \/ MainReturn

Spec == Init /\ [][Next]_vars

\* the process keeps running: a call that can return does return, and a
\* statement that can be executed is executed
FairSpec == Spec /\ WF_vars(Next)

TypeOK ==
    /\ mode \in Modes
    /\ pc \in PcValues
    /\ exitCode \in {<<>>, <<0>>, <<1>>, <<2>>}
    /\ disconnects \in Nat
    /\ Len(reads) <= MaxReads + 1
    /\ Len(fed) <= MaxReads
    /\ Len(pending) <= 1
    /\ Len(resps) <= Len(execs)

(***************************************************************************)
(* Vocabulary of the properties.                                           *)
(***************************************************************************)
\* the lines of Lines that are exit or quit once trimmed and case-folded
ExitQuitLines == { <<"e","x","i","t">>, <<" ","Q","u","I","t","\t">>,
                   <<"U+000B","E","X","U+0130","T","U+00A0">> }

\* the lines of Lines that are empty once trimmed
BlankLines == { <<>>, <<" ">> }

\* read i delivered a line (no error)
IsLine(i) == reads[i].err = "nil"

\* some Execute call was made for read i
Dispatched(i) == \E k \in 1..Len(execs) : execs[k].rd = i

\* the loop has ended (it returned, or the process exited)
Terminated == pc \in {"loopReturned", "exited"}

\* the process ended after at least one read of the loop
EndedAfterLoop == pc = "exited" /\ reads # <<>>

\* printResp has panicked on a response and the runtime has ended the process
Crashed == pc = "exited" /\ errlog # <<>> /\ errlog[Len(errlog)] = Panic

\* the k-th response has tables with one cell per column in every row
WellFormedResponse(k) == ~printRespPanics(resps[k])

\* the last Execute call failed at the transport level
ExecuteFailed ==
    /\ errlog # <<>>
    /\ errlog[Len(errlog)] = "Execute error"

\* the written pieces t contain the pieces u, consecutively
Contains(t, u) ==
    \E i \in 0..(Len(t) - Len(u)) : \A j \in 1..Len(u) : t[i + j] = u[j]

\* a prompt text shows namespace ns as [(ns)]
ShowsSpace(text, ns) == Contains(text, <<") [(", ns, ")]> ">>)

\* a prompt text carries the red escape
IsRed(text) == \E i \in 1..Len(text) : text[i] = "\\033[31m"

\* the namespace in force after rs responses
SpaceAfter(rs) == IF rs = 0 THEN "" ELSE resps[rs].spaceName

\* the failure status of the last of rs responses (false before the first)
FailedAfter(rs) ==
    IF rs = 0 THEN FALSE ELSE resps[rs].errorCode # ErrorCode_SUCCEEDED

(***************************************************************************)
(* C1.  On every route by which a run ends after the loop has started      *)
(* (exit/quit, end of input, interrupt, read error, Execute error), the    *)
(* session's Disconnect is performed exactly once before the process ends. *)
(* The code registers Disconnect with defer, and os.Exit and log.Fatalf    *)
(* do not run deferred calls, so this fails on the read-error and the      *)
(* Execute-error routes.                                                   *)
(***************************************************************************)
C1_DisconnectExactlyOnce ==
    /\ disconnects <= 1
    /\ EndedAfterLoop => disconnects = 1

\* a run that ended gracefully and did disconnect once
C1_Witness ==
    /\ EndedAfterLoop
    /\ exitCode = <<0>>
    /\ disconnects = 1
    /\ ~connected

(***************************************************************************)
(* C2.  A line that is exit or quit after trimming and case folding ends   *)
(* the loop with no error (exit code 0) and no Execute call is made for    *)
(* it; as the sole input of a non-interactive run, no query is issued at   *)
(* all.                                                                    *)
(***************************************************************************)
C2_ExitQuitTerminates ==
    \A i \in 1..Len(reads) :
        (IsLine(i) /\ reads[i].line \in ExitQuitLines) =>
            /\ i = Len(reads)
            /\ Terminated
            /\ loopErr = "nil"
            /\ (pc = "exited" => exitCode = <<0>>)
            /\ ~Dispatched(i)
            /\ (i = 1 /\ ~Interactive => execs = <<>>)

\* the script " QuIt<TAB>" alone has ended the run with status 0
C2_Witness ==
    /\ mode = "script"
    /\ pc = "exited"
    /\ exitCode = <<0>>
    /\ Len(reads) = 1
    /\ reads[1].line = <<" ","Q","u","I","t","\t">>
    /\ execs = <<>>

(***************************************************************************)
(* C3.  A read that fails with end of input or an interrupt ends the loop  *)
(* with no error reported to main, the process exits with status 0, and no *)
(* query is dispatched for that read; when it is the first read, no query  *)
(* is dispatched at all.                                                   *)
(***************************************************************************)
C3_GracefulEnd ==
    \A i \in 1..Len(reads) :
        reads[i].err \in {"EOF", "Interrupt"} =>
            /\ i = Len(reads)
            /\ Terminated
            /\ loopErr = "nil"
            /\ (pc = "exited" => exitCode = <<0>>)
            /\ ~Dispatched(i)
            /\ (i = 1 => execs = <<>>)

\* an interactive run ended with status 0 by an interrupt, after a query
C3_Witness ==
    /\ Interactive
    /\ pc = "exited"
    /\ exitCode = <<0>>
    /\ execs # <<>>
    /\ reads[Len(reads)].err = "Interrupt"

(***************************************************************************)
(* C4.  A read that fails with any other error ends the loop without a     *)
(* dispatch, the error is returned to main, and the process exits with     *)
(* status 1; the read is not retried.                                      *)
(***************************************************************************)
C4_ReadErrorFails ==
    \A i \in 1..Len(reads) :
        reads[i].err = "Other" =>
            /\ i = Len(reads)
            /\ Terminated
            /\ loopErr = "Other"
            /\ (pc = "exited" => exitCode = <<1>>)
            /\ ~Dispatched(i)

\* a file run ended with status 1 by a read error
C4_Witness ==
    /\ mode = "file"
    /\ pc = "exited"
    /\ exitCode = <<1>>
    /\ reads # <<>>
    /\ reads[Len(reads)].err = "Other"

(***************************************************************************)
(* C5.  When Execute returns a transport error the process ends at once    *)
(* with a non-zero status: no further line is read, no further Execute     *)
(* call is made, and nothing is written to standard output for that query. *)
(***************************************************************************)
C5_ExecuteErrorIsFatal ==
    ExecuteFailed =>
        /\ pc = "exited"
        /\ exitCode # <<>> /\ exitCode # <<0>>
        /\ execs # <<>>
        /\ Len(reads) = execs[Len(execs)].rd
        /\ Len(out) = execs[Len(execs)].at
        /\ Len(resps) = Len(execs) - 1

\* the second query of a run failed at the transport level
C5_Witness ==
    /\ ExecuteFailed
    /\ Len(execs) = 2
    /\ Len(resps) = 1
    /\ pc = "exited"

(***************************************************************************)
(* C6.  A response that reports a failed query does not end the loop: on   *)
(* its arrival the loop awaits the next line with no error returned, the   *)
(* failure is written as [ERROR (code)], and every later line that is not  *)
(* empty and not exit/quit is still dispatched.                            *)
(***************************************************************************)
C6_ServerErrorAbsorbed ==
    \A k \in 1..Len(resps) :
        resps[k].errorCode # ErrorCode_SUCCEEDED =>
            /\ Contains(SubSeq(out, execs[k].at + 1, execs[k].at + 4),
                        <<"[ERROR (", "-8", ")]", "\n">>)
            /\ (k = Len(resps) /\ Len(reads) = execs[k].rd) =>
                  (pc = "AwaitingLine" /\ loopErr = "unset" /\ exitCode = <<>>)
            /\ loopErr \notin {"unset", "nil"} => reads[Len(reads)].err = loopErr
            /\ \A i \in (execs[k].rd + 1)..Len(reads) :
                  (IsLine(i) /\ reads[i].line = <<"G","O">>) =>
                      \E m \in 1..Len(execs) :
                          execs[m].rd = i /\ execs[m].query = <<"G","O">>

\* a query was dispatched and answered after an earlier one had failed
C6_Witness ==
    /\ Len(resps) = 2
    /\ resps[1].errorCode # ErrorCode_SUCCEEDED
    /\ execs[2].query = <<"G","O">>
    /\ pc = "AwaitingLine"

(***************************************************************************)
(* C7.  A line that is empty after trimming whitespace (the empty line and *)
(* every whitespace-only line) causes no Execute call.  The code tests     *)
(* len(line) == 0 on the untrimmed line, so a whitespace-only line is sent *)
(* to the server.                                                          *)
(***************************************************************************)
C7_BlankLineNotDispatched ==
    \A i \in 1..Len(reads) :
        (IsLine(i) /\ reads[i].line \in BlankLines) => ~Dispatched(i)

\* an empty line was read, and the loop awaits the next one without a dispatch
C7_Witness ==
    /\ pc = "AwaitingLine"
    /\ Len(reads) = 2
    /\ reads[1].line = <<>> /\ IsLine(1)
    /\ reads[2].line = <<>> /\ IsLine(2)
    /\ execs = <<>>

(***************************************************************************)
(* C8.  currentSpace is empty until the first response and afterwards      *)
(* equals the namespace of the latest response (successful or not); every  *)
(* interactive prompt shows, as [(namespace)], the namespace in force when *)
(* it is written, also after empty lines, and a prompt follows every       *)
(* response.  The responses meant are those whose tables have one cell per *)
(* column in every row; on any other printResp panics.                     *)
(***************************************************************************)
C8_PromptShowsNamespace ==
    /\ ~Crashed => currentSpace = SpaceAfter(Len(resps))
    /\ \A p \in 1..Len(prompts) :
          ShowsSpace(prompts[p].text, SpaceAfter(prompts[p].rs))
    /\ Interactive =>
          \A k \in 1..Len(resps) :
              WellFormedResponse(k) =>
                  \E p \in 1..Len(prompts) :
                      prompts[p].rs = k /\ prompts[p].rd = execs[k].rd

\* the prompt written after an empty line that follows a response reporting
\* myspace shows [(myspace)]
C8_Witness ==
    /\ Len(resps) = 1
    /\ resps[1].spaceName = "myspace"
    /\ Len(reads) = 2
    /\ IsLine(2) /\ reads[2].line = <<>>
    /\ Len(prompts) = 3
    /\ prompts[3].rd = 2
    /\ ShowsSpace(prompts[3].text, "myspace")

(***************************************************************************)
(* C9.  lastCallWasError starts false and changes only on a response, to   *)
(* that response's failure status; every prompt written on a TTY carries   *)
(* the red escape exactly when the last response reported a failure, so    *)
(* the prompt after an empty line that follows a failed query is still     *)
(* red; no prompt is red off a TTY.  The code keeps no such flag: after an *)
(* empty line it calls c.Prompt(currentSpace, false), so that prompt is    *)
(* not red although the last query failed.                                 *)
(***************************************************************************)
C9_RedWhileLastCallFailed ==
    \A p \in 1..Len(prompts) :
        IsRed(prompts[p].text) <=> (isTTY /\ FailedAfter(prompts[p].rs))

\* on a TTY, a red prompt after a failed query, then a prompt that is not red
\* after an empty line
C9_Witness ==
    /\ isTTY
    /\ Len(resps) = 1
    /\ FailedAfter(1)
    /\ Len(prompts) = 3
    /\ IsRed(prompts[2].text)
    /\ prompts[3].rd = 2 /\ prompts[3].rs = 1
    /\ ~IsRed(prompts[3].text)

(***************************************************************************)
(* C10.  With a non-interactive input source nothing of a prompt is ever   *)
(* written: standard output holds exactly the rendering of the responses   *)
(* received, each followed by its time stamp, and no prompt is recorded.   *)
(* The output is compared in the runs in which printResp has not panicked. *)
(***************************************************************************)
C10_NoPromptNonInteractive ==
    ~Interactive =>
        /\ prompts = <<>>
        /\ ~Crashed =>
              out = Flatten([k \in 1..Len(resps) |->
                               printResp(resps[k]) \o <<"time.Now", "\n">>])
        /\ \A i \in 1..Len(out) :
              out[i] \notin {"\\033[1m", "\\033[31m", "\\033[0m", ") [(", ")]> "}

\* a script run went through an empty line and an answered query
C10_Witness ==
    /\ mode = "script"
    /\ Len(reads) = 3
    /\ IsLine(1) /\ reads[1].line = <<>>
    /\ Len(resps) = 1
    /\ pc = "exited"

(***************************************************************************)
(* C11.  In interactive mode the welcome banner is written once, before    *)
(* anything else, and the farewell banner is written once, last, after the *)
(* loop has ended by any route; in non-interactive mode neither is ever    *)
(* written.  bye is registered with defer, and os.Exit and log.Fatalf do   *)
(* not run deferred calls, so the farewell is missing on the read-error    *)
(* and the Execute-error routes.                                           *)
(***************************************************************************)
\* how many times the piece w was written to standard output
Written(w) == Cardinality({i \in 1..Len(out) : out[i] = w})

C11_Banners ==
    /\ ~Interactive => (Written("Welcome to Nebula Graph ") = 0 /\ Written("Bye ") = 0)
    /\ (Interactive /\ reads # <<>>) =>
          /\ Written("Welcome to Nebula Graph ") = 1
          /\ out[1] = "Welcome to Nebula Graph "
    /\ (Interactive /\ pc # "exited") => Written("Bye ") = 0
    /\ (Interactive /\ EndedAfterLoop) =>
          /\ Written("Bye ") = 1
          /\ SubSeq(out, Len(out) - 3, Len(out)) = <<"Bye ", username, "!", "\n">>

\* an interactive run ended by exit or quit with both banners written
C11_Witness ==
    /\ Interactive
    /\ EndedAfterLoop
    /\ reads[Len(reads)].line \in ExitQuitLines
    /\ Written("Welcome to Nebula Graph ") = 1
    /\ Written("Bye ") = 1

(***************************************************************************)
(* C12.  Every input handle the run opened (the script file of -f, the     *)
(* line editor instance) has been released when the process ends, on every *)
(* route.  The file is closed only after loop returns, so not when Execute *)
(* fails inside it, and the line editor instance is never closed.          *)
(***************************************************************************)
C12_HandlesReleased ==
    pc = "exited" => (~fdOpen /\ ~rlOpen)

\* a file run ended by end of input with the file opened and closed
C12_Witness ==
    /\ mode = "file"
    /\ pc = "exited"
    /\ exitCode = <<0>>
    /\ fdEverOpened
    /\ ~fdOpen
    /\ reads[Len(reads)].err = "EOF"


(***************************************************************************)
(* Direct calls of val2String.  A second specification draws a value and a *)
(* depth and calls val2String on them twice; the process stays where main  *)
(* starts.  The values are every scalar variant, the flat Lists, Sets and  *)
(* Maps over a few elements, and containers nested in one another.         *)
(***************************************************************************)
MaxElems == 3          \* elements of a flat List or Set
MaxKeys == 2           \* entries of a flat Map
MaxNest == 3           \* containers nested in one another
MaxDepth == 3          \* depths 0..MaxDepth are drawn, and RenderDepth

Step1 == << <<"l","i","k","e">>, <<"b">>, 0 >>

Scalars ==
    { NVal(NullType_NULL), NVal(NullType_NaN), NVal(NullType_BAD_DATA),
      NVal(NullType_BAD_TYPE), NVal(NullType_BAD_TYPE + 1),
      BVal(TRUE), BVal(FALSE),
      IVal(0), IVal(-20),
      FVal(FALSE, 1, <<"5">>), FVal(TRUE, 0, <<"2","5">>), FVal(FALSE, 3, <<>>),
      SVal(<<>>), SVal(<<"a","n","n">>),
      DVal(2020, 1, 2), TVal(2020, 1, 2, 3, 4, 5, 6),
      VVal(<<"v","1">>), VVal(<<>>),
      EVal(<<"a">>, <<"l","i","k","e">>, <<"b">>, 0),
      EVal(<<>>, <<>>, <<>>, -1),
      PVal(<<"a">>, <<Step1>>), PVal(<<"a">>, <<Step1, Step1>>),
      PVal(<<>>, <<Step1>>), PVal(<<"a">>, <<>>), PVal(<<>>, <<>>),
      Unset }

Elems == {IVal(1), IVal(2), IVal(3), SVal(<<"a">>)}

\* the sequences over S of length 0..n
SeqsUpTo(S, n) == UNION {[1..k -> S] : k \in 0..n}

\* the key of the j-th entry of a drawn Map
KeyName(j) == <<"k">> \o NatToChars(j)
KeyNames(n) == [j \in 1..n |-> KeyName(j)]

Flat ==
    {LVal(es) : es \in SeqsUpTo(Elems, MaxElems)}
    \cup {UVal(es) : es \in SeqsUpTo(Elems, MaxElems)}
    \cup {MVal(KeyNames(Len(es)), es) : es \in SeqsUpTo(Elems, MaxKeys)}

\* the containers that hold v, alone or next to a scalar
Wrap(v) ==
    { LVal(<<v>>), LVal(<<IVal(2), v>>),
      UVal(<<v>>), UVal(<<v, IVal(2)>>),
      MVal(KeyNames(1), <<v>>), MVal(KeyNames(2), <<IVal(2), v>>) }

RECURSIVE Nested(_)
Nested(k) ==
    IF k = 0 THEN {IVal(1), VVal(<<>>)}
    ELSE UNION {Wrap(v) : v \in Nested(k - 1)}

Values == Scalars \cup Flat \cup UNION {Nested(k) : k \in 1..MaxNest}
Depths == (0..MaxDepth) \cup {RenderDepth}

IsContainer(v) == v.tag \in {"lVal", "mVal", "uVal"}

\* the sequences that take their i-th element from sets[i]
RECURSIVE SeqProduct(_)
SeqProduct(sets) ==
    IF sets = <<>> THEN {<<>>}
    ELSE {<<h>> \o t : h \in Head(sets), t \in SeqProduct(Tail(sets))}

Perms(n) == {p \in [1..n -> 1..n] : \A i, j \in 1..n : p[i] = p[j] => i = j}

\* for k, v := range m.GetKvs(): the order in which the entries of a Go map
\* are visited is chosen by the runtime at each range statement.  Orderings(v)
\* is v with the entries of its Maps, at every level, in each order the
\* range statements may visit them.
RECURSIVE Orderings(_)
Orderings(v) ==
    IF ~IsContainer(v) THEN {v}
    ELSE LET n == Len(v.vs)
             ess == SeqProduct([i \in 1..n |-> Orderings(v.vs[i])])
         IN  IF v.tag = "mVal"
             THEN {[v EXCEPT !.s = [i \in 1..n |-> v.s[p[i]]],
                             !.vs = [i \in 1..n |-> es[p[i]]]] :
                        p \in Perms(n), es \in ess}
             ELSE {[v EXCEPT !.vs = es] : es \in ess}

\* a value and a depth are drawn; nothing is rendered yet
InitRender ==
    /\ InitProc
    /\ mode = "script"
    /\ call \in [op : {"val2String"}, value : Values, depth : Depths,
                 results : {<<>>}]

\* val2String(value, depth) is called; seen is the value as the range
\* statements of this call visit it
Val2StringCall ==
    /\ call.op = "val2String"
    /\ Len(call.results) < 2
    /\ \E w \in Orderings(call.value) :
          call' = [call EXCEPT !.results =
                      Append(@, [seen |-> w, text |-> val2String(w, call.depth)])]
    /\ UNCHANGED procVars

NextRender == Val2StringCall

SpecRender == InitRender /\ [][NextRender]_vars

(***************************************************************************)
(* Vocabulary of the properties of val2String.                             *)
(***************************************************************************)
Ellipsis == <<".", ".", ".">>

\* how many times the placeholder occurs in the text t
CountEllipsis(t) ==
    Cardinality({i \in 1..(Len(t) - 2) :
                    t[i] = "." /\ t[i + 1] = "." /\ t[i + 2] = "."})

\* how many values are reached with budget 0 when v is given budget d and
\* every element of a container is given one less than the container
RECURSIVE ReachedAtZero(_, _)
ReachedAtZero(v, d) ==
    IF d = 0 THEN 1
    ELSE IF ~IsContainer(v) THEN 0
    ELSE sum([i \in 1..Len(v.vs) |-> ReachedAtZero(v.vs[i], d - 1)])

\* the largest number of a sequence of naturals, 0 when it is empty
RECURSIVE Largest(_)
Largest(a) == IF a = <<>> THEN 0 ELSE max(Head(a), Largest(Tail(a)))

\* how many containers are nested in one another in v, v included
RECURSIVE Nesting(_)
Nesting(v) ==
    IF ~IsContainer(v) THEN 0
    ELSE 1 + Largest([i \in 1..Len(v.vs) |-> Nesting(v.vs[i])])

OpenOf(v) == IF v.tag = "lVal" THEN <<"[">> ELSE <<"{">>
CloseOf(v) == IF v.tag = "lVal" THEN <<"]">> ELSE <<"}">>
\* what precedes the rendering of element j: the quoted key and a colon in a Map
KeyOf(v, j) ==
    IF v.tag = "mVal" THEN <<"\"">> \o v.s[j] \o <<"\"", ":">> ELSE <<>>

\* C13: val2String returns for every drawn value and depth; with depth 0
\* the result is the placeholder "..." whatever the value is; with a
\* depth d > 0 a List, Map or Set is its bracket, then each element rendered
\* with depth d - 1 and followed by a comma, then the closing bracket; and
\* the placeholder occurs once for each value reached with depth 0, so
\* nothing below such a value is rendered.
C13_DepthBudget ==
    \A i \in 1..Len(call.results) :
        LET w == call.results[i].seen
            t == call.results[i].text
            d == call.depth
        IN  /\ d = 0 => t = Ellipsis
            /\ (d > 0 /\ IsContainer(w)) =>
                  t = OpenOf(w)
                      \o Flatten([j \in 1..Len(w.vs) |->
                            KeyOf(w, j) \o val2String(w.vs[j], d - 1) \o <<",">>])
                      \o CloseOf(w)
            /\ CountEllipsis(t) = ReachedAtZero(w, d)

\* a value nested deeper than the depth it is rendered with: the inner
\* containers are cut off
C13_Witness ==
    /\ call.op = "val2String"
    /\ call.depth = 2
    /\ Nesting(call.value) = 3
    /\ Len(call.results) = 2
    /\ CountEllipsis(call.results[1].text) >= 1

\* C14: a value with one variant populated, rendered with a depth that is
\* positive and not smaller than its nesting, gives a non-empty string;
\* this is stated for every variant, a Vertex or Path with empty identifier
\* bytes and a Null of any kind included.
C14_NonEmpty ==
    \A i \in 1..Len(call.results) :
        (/\ call.depth > 0
         /\ call.value.tag # "unset"
         /\ Nesting(call.value) <= call.depth)
        => call.results[i].text # <<>>

\* a Vertex whose vid is empty has been rendered with a positive depth
C14_Witness ==
    /\ call.op = "val2String"
    /\ call.value = VVal(<<>>)
    /\ call.depth = RenderDepth
    /\ Len(call.results) >= 1
    /\ call.results[1].text = <<>>

\* the text expected of a scalar that is an element of a drawn container
ShownScalar(v) ==
    CASE v = IVal(1) -> <<"1">>
      [] v = IVal(2) -> <<"2">>
      [] v = IVal(3) -> <<"3">>
      [] v = SVal(<<"a">>) -> <<"\"", "a", "\"">>
      [] v = VVal(<<>>) -> <<>>

\* the text expected of a value when the depth does not cut it off
RECURSIVE Shown(_)
Shown(v) ==
    IF ~IsContainer(v) THEN ShownScalar(v)
    ELSE OpenOf(v)
         \o Flatten([j \in 1..Len(v.vs) |-> KeyOf(v, j) \o Shown(v.vs[j]) \o <<",">>])
         \o CloseOf(v)

\* C15: with a depth larger than its nesting, a List is "[", then each
\* element's rendering followed by one ",", in order, then "]"; a Set is
\* the same between "{" and "}"; a Map has each entry as the key in double
\* quotes, ":", the rendered value and ",", between "{" and "}".  So the
\* List of 1, 2, 3 is [1,2,3,] and the empty List is [].
C15_ContainerFormat ==
    \A i \in 1..Len(call.results) :
        LET w == call.results[i].seen
            t == call.results[i].text
        IN  /\ (IsContainer(w) /\ call.depth > Nesting(w)) => t = Shown(w)
            /\ (w = LVal(<<IVal(1), IVal(2), IVal(3)>>) /\ call.depth >= 2)
                  => t = <<"[", "1", ",", "2", ",", "3", ",", "]">>
            /\ (w = LVal(<<>>) /\ call.depth >= 1) => t = <<"[", "]">>
            /\ (w = UVal(<<>>) /\ call.depth >= 1) => t = <<"{", "}">>
            /\ (w = MVal(<<>>, <<>>) /\ call.depth >= 1) => t = <<"{", "}">>
            /\ (w = MVal(<<KeyName(1)>>, <<IVal(1)>>) /\ call.depth >= 2)
                  => t = <<"{", "\"", "k", "1", "\"", ":", "1", ",", "}">>

\* a Map with two entries inside a List has been rendered in full
C15_Witness ==
    /\ call.op = "val2String"
    /\ call.value = LVal(<<MVal(KeyNames(2), <<IVal(2), IVal(1)>>)>>)
    /\ call.depth = RenderDepth
    /\ Len(call.results) = 2
    /\ call.results[2].text = Shown(call.results[2].seen)
    /\ Len(call.results[2].text) = 19

\* C16: two calls of val2String on the same value with the same depth
\* return the same string, for every variant, a Map with two or more keys
\* included.
C16_Deterministic ==
    Len(call.results) = 2 => call.results[1].text = call.results[2].text

\* a Map with two keys has been rendered twice, with different results
C16_Witness ==
    /\ call.op = "val2String"
    /\ call.value = MVal(KeyNames(2), <<IVal(1), IVal(2)>>)
    /\ call.depth = RenderDepth
    /\ Len(call.results) = 2
    /\ call.results[1].text # call.results[2].text

(***************************************************************************)
(* Direct calls of printTable.  A third specification draws a table and    *)
(* calls printTable on it; the lines printed and the column widths are     *)
(* kept.  Every row of a drawn table has one cell per column.              *)
(***************************************************************************)
MaxCols == 2           \* columns of a drawn table (0..MaxCols)
MaxRows == 2           \* rows of a drawn table (0..MaxRows)

\* the name of column j
ColName(j) ==
    IF j = 1 THEN <<"i","d">>
    ELSE IF j = 2 THEN <<"n","a","m","e">>
    ELSE <<"c">> \o NatToChars(j)

Cells == {IVal(7), SVal(<<"a","l","e","x","a","n","d","r","a">>), VVal(<<>>)}

\* the tables with one cell per column in every row, and one with a row
\* that has a cell too many
Tables ==
    UNION {{[columnNames |-> [j \in 1..c |-> ColName(j)], rows |-> rs] :
                rs \in [1..n -> [1..c -> Cells]]} :
           c \in 0..MaxCols, n \in 0..MaxRows}
    \cup {TableWide}

\* a table is drawn; nothing is printed yet
InitTable ==
    /\ InitProc
    /\ mode = "script"
    /\ call \in [op : {"printTable"}, table : Tables, done : {FALSE},
                 panicked : {FALSE}, widths : {<<>>}, lines : {<<>>}]

\* printTable(table) is called
PrintTableCall ==
    /\ call.op = "printTable"
    /\ ~call.done
    /\ call' = IF indexOutOfRange(call.table)
                THEN [call EXCEPT !.done = TRUE, !.panicked = TRUE]
                ELSE [call EXCEPT !.done = TRUE,
                                  !.widths = tableSpec(call.table),
                                  !.lines = printTable(call.table)]
    /\ UNCHANGED procVars

NextTable == PrintTableCall

SpecTable == InitTable /\ [][NextTable]_vars

(***************************************************************************)
(* Vocabulary of the properties of printTable.                             *)
(***************************************************************************)
ColumnCount == Len(call.table.columnNames)

\* every row of the table has one cell per column
WellFormed ==
    \A i \in 1..Len(call.table.rows) : Len(call.table.rows[i]) = ColumnCount
RowCount == Len(call.table.rows)

\* the lengths column j has to hold: its header name and its rendered cells
ColumnLengths(j) ==
    {Len(call.table.columnNames[j])}
    \cup {Len(val2String(call.table.rows[i][j], RenderDepth)) : i \in 1..RowCount}

\* the line l is made of the character c alone
AllOf(l, c) == l # <<>> /\ \A k \in 1..Len(l) : l[k] = c

\* the printed lines that are separators
Separators ==
    {k \in 1..Len(call.lines) :
        AllOf(call.lines[k], "=") \/ AllOf(call.lines[k], "-")}

\* C17: after one printTable call the width of each column is the largest
\* of its header-name length and the lengths of its rendered cells, and
\* every separator line, of "=" or of "-", has the length
\* sum(widths) + 4 * columns + columns + 1.
C17_WidthsAndSeparators ==
    (call.done /\ WellFormed) =>
        /\ Len(call.widths) = ColumnCount
        /\ \A j \in 1..ColumnCount :
              /\ call.widths[j] \in ColumnLengths(j)
              /\ \A n \in ColumnLengths(j) : n <= call.widths[j]
        /\ Cardinality(Separators) = 2 + RowCount
        /\ \A k \in Separators :
              Len(call.lines[k]) = sum(call.widths) + ColumnCount * 4 + ColumnCount + 1

\* a table where the header decides the width of one column and a cell
\* that of the other has been printed
C17_Witness ==
    /\ call.op = "printTable"
    /\ call.done
    /\ ColumnCount = 2 /\ RowCount = 2
    /\ call.widths = <<2, 11>>
    /\ Len(call.lines[1]) = 24
    /\ AllOf(call.lines[5], "-")

\* the texts of the header row (i = 0) and of data row i
RowTexts(i) ==
    IF i = 0 THEN call.table.columnNames
    ELSE [j \in 1..ColumnCount |-> val2String(call.table.rows[i][j], RenderDepth)]

\* where printTable prints the header row (i = 0) and data row i
RowLineAt(i) == 2 + 2 * i

\* C19: in a table whose rows have one cell per column, the header line
\* and every row line are, per cell, "|", two spaces, the content and
\* trailing spaces up to width + 2, and a final "|"; each such line is as
\* long as the separator lines of the table.
C19_RowLayout ==
    (call.done /\ WellFormed) =>
        \A i \in 0..RowCount :
            LET l == call.lines[RowLineAt(i)]
                texts == RowTexts(i)
            IN  /\ l = Flatten([j \in 1..ColumnCount |->
                          <<"|", " ", " ">> \o texts[j]
                          \o Repeat(" ", call.widths[j] + 2 - Len(texts[j]))])
                       \o <<"|">>
                /\ Len(l) = Len(call.lines[1])
                /\ \A k \in Separators : Len(l) = Len(call.lines[k])

\* a row with a short and an empty cell has been printed with its padding
C19_Witness ==
    /\ call.op = "printTable"
    /\ call.done
    /\ call.table.rows = << <<IVal(7), VVal(<<>>)>> >>
    /\ call.lines[4] = <<"|"," "," ","7"," "," "," ","|"," "," ",
                         " "," "," "," "," "," ","|">>

\* the summary line for n rows and c columns
Summary(n, c) ==
    <<"G","o","t"," ">> \o NatToChars(n) \o <<" ","r","o","w","s",","," ">>
    \o NatToChars(c) \o <<" ","c","o","l","u","m","n","s",".">>

\* C20: printTable on n rows and c columns prints, in this order, a header
\* separator, the header row, a header separator, then for each row in
\* order the row line and one row separator, then "Got n rows, c columns.";
\* with no rows the three header lines and the summary are still printed.
C20_LineOrder ==
    (call.done /\ WellFormed) =>
        /\ Len(call.lines) = 3 + 2 * RowCount + 1
        /\ AllOf(call.lines[1], "=")
        /\ call.lines[2] = printRow(RowTexts(0), call.widths)
        /\ call.lines[3] = call.lines[1]
        /\ \A i \in 1..RowCount :
              /\ call.lines[2 + 2 * i] = printRow(RowTexts(i), call.widths)
              /\ AllOf(call.lines[3 + 2 * i], "-")
              /\ Len(call.lines[3 + 2 * i]) = Len(call.lines[1])
        /\ call.lines[Len(call.lines)] = Summary(RowCount, ColumnCount)

\* a table without rows has been printed: header lines and summary
C20_Witness ==
    /\ call.op = "printTable"
    /\ call.done
    /\ RowCount = 0 /\ ColumnCount = 2
    /\ Len(call.lines) = 4
    /\ call.lines[4] = <<"G","o","t"," ","0"," ","r","o","w","s",","," ",
                         "2"," ","c","o","l","u","m","n","s",".">>

(***************************************************************************)
(* Lines and queries.                                                      *)
(***************************************************************************)
\* the Execute calls made for the i-th line the source delivered
ExecsOf(i) == {k \in 1..Len(execs) : execs[k].ln = i}

\* the i-th delivered line has been read to its end
ReadWhole(i) == i < Len(fed) \/ (i = Len(fed) /\ pending = <<>>)

\* C18: in non-interactive mode every delivered line that is non-empty and
\* is not exit or quit gives exactly one Execute call, whose query is the
\* whole line unchanged, and the calls are made in the order of the lines;
\* lines of any length.
C18_OneLineOneQuery ==
    ~Interactive =>
        /\ \A k \in 1..Len(execs) : execs[k].query = fed[execs[k].ln]
        /\ \A k, k2 \in 1..Len(execs) : k < k2 => execs[k].ln < execs[k2].ln
        /\ \A i \in 1..Len(fed) :
              (ReadWhole(i) /\ ~isEmptyLine(fed[i]) /\ ~clientCmd(fed[i]))
              => Cardinality(ExecsOf(i)) = 1

\* a line longer than the reader's buffer has been read to its end and has
\* given two Execute calls, neither with the whole line
C18_Witness ==
    /\ mode = "file"
    /\ fed = <<LongLine>>
    /\ pending = <<>>
    /\ Cardinality(ExecsOf(1)) = 2
    /\ Len(execs[1].query) = BufSize
    /\ execs[2].query = <<"O">>

(***************************************************************************)
(* The end of the loop.                                                    *)
(***************************************************************************)
\* read i returned a line that is exit or quit
IsExitQuit(i) == IsLine(i) /\ reads[i].line \in ExitQuitLines

\* C21: once an exit or quit line has been read the loop has ended; that
\* read is the last one, the line it returned is the last one taken from
\* the input source, and no Execute call is made for it or after it.
C21_NothingAfterExit ==
    \A i \in 1..Len(reads) :
        IsExitQuit(i) =>
            /\ Terminated
            /\ i = Len(reads)
            /\ pending = <<>>
            /\ fed # <<>> /\ fed[Len(fed)] = reads[i].line
            /\ \A k \in 1..Len(execs) : execs[k].rd < i /\ execs[k].ln < Len(fed)

\* a script whose second line is quit: the first line was dispatched, the
\* process has ended after the quit line
C21_Witness ==
    /\ mode = "script"
    /\ pc = "exited"
    /\ Len(reads) = 2
    /\ reads[1].line = <<"G","O">>
    /\ reads[2].line = <<" ","Q","u","I","t","\t">>
    /\ Len(execs) = 1
    /\ Len(resps) = 1

\* C22: in interactive mode prompts and reads alternate.  The k-th prompt
\* is rendered when k - 1 reads have been made, so there is exactly one
\* prompt before each read; the first shows the empty namespace and is not
\* red; while a read is awaited there is one prompt more than reads, and
\* once the loop has ended there are as many prompts as reads, so none
\* follows the read that ended it.  Each prompt is on standard output.
C22_PromptsAlternate ==
    Interactive =>
        /\ \A k \in 1..Len(prompts) : prompts[k].rd = k - 1
        /\ pc = "AwaitingLine" => Len(prompts) = Len(reads) + 1
        /\ pc = "Dispatching" => Len(prompts) = Len(reads)
        /\ Terminated => Len(prompts) = Len(reads)
        /\ prompts # <<>> =>
              /\ ShowsSpace(prompts[1].text, "")
              /\ ~IsRed(prompts[1].text)
        /\ Written(") [(") = Len(prompts)

\* an interactive run: an empty line, a query answered with an error, then
\* the end of input; three prompts for three reads
C22_Witness ==
    /\ Interactive /\ isTTY
    /\ pc = "exited"
    /\ Len(reads) = 3
    /\ reads[1].line = <<>> /\ IsLine(1)
    /\ reads[2].line = <<"G","O">>
    /\ reads[3].err = "EOF"
    /\ Len(resps) = 1 /\ FailedAfter(1)
    /\ Len(prompts) = 3
    /\ IsRed(prompts[3].text)

\* C23: when the source delivers finitely many lines and then only reports
\* the end of input, and every Execute call returns, a loop that awaits a
\* line eventually ends, in interactive and non-interactive mode alike,
\* and at no time have more Execute calls been made than lines delivered.
C23_LoopTerminates ==
    /\ (pc = "AwaitingLine") ~> Terminated
    /\ [](Len(execs) <= Len(fed))

\* a file-mode run has ended after one delivered line and two Execute calls
C23_Witness ==
    /\ mode = "file"
    /\ Terminated
    /\ Len(fed) = 1
    /\ Len(execs) = 2
    /\ Len(resps) = 2
    /\ reads[Len(reads)].err = "EOF"
====
